---- MODULE Spec2Model ----
(***************************************************************************)
(* Black-76 pricing of a European option on a future                       *)
(* (class EuropeanOptionOnFuture of optionprice_question.py).              *)
(*                                                                         *)
(* Python floats are modelled as decimal floating-point numbers            *)
(* [m |-> mantissa, e |-> exponent] of value m * 10^e with an eight-digit  *)
(* mantissa (10^7 <= |m| < 10^8, or m = 0 and e = 0).  Every operation     *)
(* rounds its result to eight digits, as every float operation rounds to   *)
(* 53 bits; the exponent is unbounded, so that overflow to inf and         *)
(* OverflowError do not occur (the inputs are far from them).  A Python    *)
(* exception is an outcome [tag |-> <exception>]; a returned float is      *)
(* [tag |-> "ok", val |-> <float>].                                        *)
(***************************************************************************)
EXTENDS Integers, Sequences, FiniteSets, TLC

VARIABLES opt, ctor, rejected, caller, pc, frame

vars == <<opt, ctor, rejected, caller, pc, frame>>

(***************************************************************************)
(* Floating-point arithmetic.                                              *)
(***************************************************************************)
MantMin == 10^7
MantMax == 10^8
Limb == 10^4

Zero == [m |-> 0, e |-> 0]
One == [m |-> 10000000, e |-> -7]
Half == [m |-> 50000000, e |-> -8]

AbsInt(n) == IF n < 0 THEN -n ELSE n

SgnInt(n) == IF n < 0 THEN -1 ELSE 1

\* n / d rounded to the nearest integer, for n >= 0 and d > 0
RoundDiv(n, d) == (n + d \div 2) \div d

RECURSIVE Norm(_, _, _)
\* the float nearest to s * n * 10^e, for a sign s and an integer n >= 0
Norm(s, n, e) ==
    IF n = 0 THEN Zero
    ELSE IF n >= 10 * MantMax THEN [m |-> s * RoundDiv(n, 100), e |-> e + 2]
    ELSE IF n >= MantMax THEN
        LET q == RoundDiv(n, 10)
        IN  IF q = MantMax THEN [m |-> s * MantMin, e |-> e + 2]
            ELSE [m |-> s * q, e |-> e + 1]
    ELSE IF n >= MantMin THEN [m |-> s * n, e |-> e]
    ELSE Norm(s, n * 10, e - 1)

\* float(n) of a Python int
FromInt(n) == Norm(SgnInt(n), AbsInt(n), 0)

Neg(a) == [m |-> -a.m, e |-> a.e]

AbsF(a) == [m |-> AbsInt(a.m), e |-> a.e]

\* a * b
Mul(a, b) ==
    IF a.m = 0 \/ b.m = 0 THEN Zero
    ELSE
        LET ma == AbsInt(a.m)
            mb == AbsInt(b.m)
            a1 == ma \div Limb
            a0 == ma % Limb
            b1 == mb \div Limb
            b0 == mb % Limb
            lo == a0 * b0
            mid == a1 * b0 + a0 * b1 + lo \div Limb
            top == a1 * b1 + mid \div Limb
            rem == (mid % Limb) * Limb + (lo % Limb)
            s == SgnInt(a.m) * SgnInt(b.m)
        IN  IF top >= MantMin
            THEN Norm(s, top * 10 + rem \div MantMin, a.e + b.e + 7)
            ELSE Norm(s, top * 100 + rem \div (MantMin \div 10), a.e + b.e + 6)

\* a + b
Add(a, b) ==
    IF a.m = 0 THEN b
    ELSE IF b.m = 0 THEN a
    ELSE
        LET x == IF a.e >= b.e THEN a ELSE b
            y == IF a.e >= b.e THEN b ELSE a
            d == x.e - y.e
        IN  IF d >= 10 THEN x
            ELSE
                LET ys == IF d = 0 THEN y.m * 10
                          ELSE SgnInt(y.m) * RoundDiv(AbsInt(y.m), 10^(d - 1))
                    sum == x.m * 10 + ys
                IN  Norm(SgnInt(sum), AbsInt(sum), x.e - 1)

Sub(a, b) == Add(a, Neg(b))

Lt(a, b) == Sub(a, b).m < 0

Le(a, b) == Sub(a, b).m <= 0

RECURSIVE DivDigits(_, _, _, _)
\* long division: k more decimal digits of the quotient q, remainder r
DivDigits(q, r, mb, k) ==
    IF k = 0 THEN q
    ELSE DivDigits(q * 10 + (r * 10) \div mb, (r * 10) % mb, mb, k - 1)

\* a / b, for b # 0
Div(a, b) ==
    IF a.m = 0 THEN Zero
    ELSE
        LET ma == AbsInt(a.m)
            mb == AbsInt(b.m)
            q == DivDigits(ma \div mb, ma % mb, mb, 8)
        IN  Norm(SgnInt(a.m) * SgnInt(b.m), q, a.e - b.e - 8)

(***************************************************************************)
(* math.sqrt, math.exp, math.log and scipy.stats.norm.cdf, each computed   *)
(* to the precision of the arithmetic above.                               *)
(***************************************************************************)
Ln10 == [m |-> 23025851, e |-> -7]
EulerE == [m |-> 27182818, e |-> -7]
InvEulerE == [m |-> 36787944, e |-> -8]
Sqrt10 == [m |-> 31622777, e |-> -7]
InvSqrt2Pi == [m |-> 39894228, e |-> -8]
PhiCut == [m |-> 57000000, e |-> -7]

RECURSIVE SqrtIter(_, _, _)
\* k Newton steps x := (x + a / x) / 2 towards the square root of a
SqrtIter(a, x, k) ==
    IF k = 0 THEN x ELSE SqrtIter(a, Mul(Half, Add(x, Div(a, x))), k - 1)

\* math.sqrt(a), for a >= 0
Sqrt(a) ==
    IF a.m = 0 THEN Zero
    ELSE
        LET odd == (a.e % 2) # 0
            x0 == [m |-> IF odd THEN 20000000 ELSE 60000000,
                   e |-> IF odd THEN (a.e + 7) \div 2 - 7 ELSE (a.e + 8) \div 2 - 8]
        IN  SqrtIter(a, x0, 6)

RECURSIVE ExpSeries(_, _, _, _)
\* the Taylor series of exp(x): sum so far, last term x^(k-1)/(k-1)!
ExpSeries(x, term, sum, k) ==
    IF term.m = 0 \/ term.e + 10 < sum.e THEN sum
    ELSE
        LET next == Div(Mul(term, x), FromInt(k))
        IN  ExpSeries(x, next, Add(sum, next), k + 1)

\* round(x) as an integer, for |x| < 10^8
RoundInt(x) ==
    IF x.e >= 0 THEN x.m * 10^x.e
    ELSE IF x.e < -8 THEN 0
    ELSE SgnInt(x.m) * RoundDiv(AbsInt(x.m), 10^(-x.e))

RECURSIVE Pow(_, _)
\* b^n for an integer n >= 0
Pow(b, n) == IF n = 0 THEN One ELSE Mul(b, Pow(b, n - 1))

\* math.exp(x) = e^n * exp(x - n) with n the integer nearest to x
Exp(x) ==
    LET n == RoundInt(x)
        f == Sub(x, FromInt(n))
        frac == IF f.m = 0 THEN One ELSE ExpSeries(f, One, One, 1)
    IN  IF n = 0 THEN frac
        ELSE Mul(Pow(IF n > 0 THEN EulerE ELSE InvEulerE, AbsInt(n)), frac)

RECURSIVE LnSeries(_, _, _, _)
\* the series z + z^3/3 + z^5/5 + ... : sum so far, last power z^(k-2)
LnSeries(z2, pow, sum, k) ==
    IF pow.m = 0 \/ pow.e + 10 < sum.e THEN sum
    ELSE
        LET next == Mul(pow, z2)
        IN  LnSeries(z2, next, Add(sum, Div(next, FromInt(k))), k + 2)

\* math.log(x), for x > 0
Ln(x) ==
    LET y0 == [m |-> x.m, e |-> -7]
        big == Lt(Sqrt10, y0)
        y == IF big THEN [m |-> x.m, e |-> -8] ELSE y0
        k == IF big THEN x.e + 8 ELSE x.e + 7
        z == Div(Sub(y, One), Add(y, One))
        s == IF z.m = 0 THEN Zero ELSE LnSeries(Mul(z, z), z, z, 3)
    IN  Add(Mul(FromInt(2), s), Mul(FromInt(k), Ln10))

RECURSIVE PhiSeries(_, _, _, _)
\* the series x + x^3/3 + x^5/(3*5) + ... : sum so far, last term
PhiSeries(x2, term, sum, k) ==
    IF term.m = 0 \/ term.e + 10 < sum.e THEN sum
    ELSE
        LET next == Div(Mul(term, x2), FromInt(k))
        IN  PhiSeries(x2, next, Add(sum, next), k + 2)

\* norm.cdf(x) - 1/2 for 0 <= x < PhiCut
PhiHalf(x) ==
    IF x.m = 0 THEN Zero
    ELSE
        LET x2 == Mul(x, x)
            pdf == Mul(InvSqrt2Pi, Exp(Neg(Mul(Half, x2))))
            t == Mul(pdf, PhiSeries(x2, x, x, 3))
        IN  IF Lt(Half, t) THEN Half ELSE t

\* norm.cdf(x), a value in [0, 1]; beyond PhiCut it is 1 to eight digits,
\* and below -PhiCut less than 10^-8, taken as 0
Phi(x) ==
    IF Le(PhiCut, x) THEN One
    ELSE IF Le(x, Neg(PhiCut)) THEN Zero
    ELSE IF x.m < 0 THEN Sub(Half, PhiHalf(Neg(x)))
    ELSE Add(Half, PhiHalf(x))

(***************************************************************************)
(* class EuropeanOptionOnFuture.                                           *)
(*                                                                         *)
(* A datetime is an integer count of ticks, TicksPerDay ticks to the day;  *)
(* the difference of two datetimes is a timedelta, whose .days is the      *)
(* number of whole days in it, rounded towards minus infinity.             *)
(***************************************************************************)
TicksPerDay == 4

Ok(v) == [tag |-> "ok", val |-> v]

\* ZeroDivisionError; MathDomainError is ValueError("math domain error");
\* InvalidOptionType is ValueError("Option type must be 'c' or 'p'")
Raise(exc) == [tag |-> exc]

NoObject == [none |-> TRUE]

\* a timedelta cut to whole days towards zero
days_towards_zero(delta) ==
    IF delta >= 0 THEN delta \div TicksPerDay ELSE -((-delta) \div TicksPerDay)

\* timedelta.days
days(delta) == delta \div TicksPerDay

\* a constructor that stores any option_type
__init__unchecked(strike_price, expiry_date, vol, discount_rate, option_type) ==
    Ok([_strike_price |-> strike_price,
        _expiry_date |-> expiry_date,
        _vol |-> vol,
        _discount_rate |-> discount_rate,
        _option_type |-> option_type])

\* a constructor that also rejects a strike_price <= 0
__init__validating(strike_price, expiry_date, vol, discount_rate, option_type) ==
    IF strike_price.m <= 0 THEN Raise("InvalidParameter")
    ELSE IF option_type \notin {"c", "p"} THEN Raise("InvalidOptionType")
    ELSE Ok([_strike_price |-> strike_price,
             _expiry_date |-> expiry_date,
             _vol |-> vol,
             _discount_rate |-> discount_rate,
             _option_type |-> option_type])

\* EuropeanOptionOnFuture(strike_price, expiry_date, vol, discount_rate, option_type)
__init__(strike_price, expiry_date, vol, discount_rate, option_type) ==
    IF option_type \notin {"c", "p"} THEN Raise("InvalidOptionType")
    ELSE Ok([_strike_price |-> strike_price,
             _expiry_date |-> expiry_date,
             _vol |-> vol,
             _discount_rate |-> discount_rate,
             _option_type |-> option_type])

\* a day count over a 360-day year
_calc_maturity_360(self, current_time) ==
    Div(FromInt(days(self._expiry_date - current_time)), FromInt(360))

\* a day count that keeps the part of a day
_calc_maturity_fractional(self, current_time) ==
    Div(FromInt(self._expiry_date - current_time), FromInt(365 * TicksPerDay))

_calc_maturity(self, current_time) ==
    Div(FromInt(days(self._expiry_date - current_time)), FromInt(365))

\* a d1 that falls back to 0 where the denominator vanishes or is undefined
_calc_d1_guarded(self, futures_price, time_to_maturity) ==
    IF time_to_maturity.m <= 0 \/ self._vol.m = 0 THEN Ok(Zero)
    ELSE IF self._strike_price.m = 0 THEN Raise("ZeroDivisionError")
    ELSE
        LET ratio == Div(futures_price, self._strike_price)
        IN  IF ratio.m <= 0 THEN Raise("MathDomainError")
            ELSE Ok(Div(Add(Ln(ratio),
                            Mul(Mul(Half, Mul(self._vol, self._vol)),
                                time_to_maturity)),
                        Mul(self._vol, Sqrt(time_to_maturity))))

_calc_d1(self, futures_price, time_to_maturity) ==
    IF self._strike_price.m = 0 THEN Raise("ZeroDivisionError")
    ELSE
        LET ratio == Div(futures_price, self._strike_price)
        IN  IF ratio.m <= 0 THEN Raise("MathDomainError")
            ELSE IF time_to_maturity.m < 0 THEN Raise("MathDomainError")
            ELSE
                LET num == Add(Ln(ratio),
                               Mul(Mul(Half, Mul(self._vol, self._vol)),
                                   time_to_maturity))
                    den == Mul(self._vol, Sqrt(time_to_maturity))
                IN  IF den.m = 0 THEN Raise("ZeroDivisionError")
                    ELSE Ok(Div(num, den))

\* line 117: d2 = d1 - self._vol * sqrt(time_to_maturity)
calc_d2(self, d1, time_to_maturity) ==
    IF time_to_maturity.m < 0 THEN Raise("MathDomainError")
    ELSE Ok(Sub(d1, Mul(self._vol, Sqrt(time_to_maturity))))

\* exp(-self._discount_rate * time_to_maturity)
discount(self, time_to_maturity) ==
    Exp(Mul(Neg(self._discount_rate), time_to_maturity))

\* a put priced with the arguments of the call's distribution function
price_formula_put_unsigned(self, futures_price, time_to_maturity, d1, d2) ==
    IF self._option_type = "c" THEN
        Ok(Mul(discount(self, time_to_maturity),
               Sub(Mul(futures_price, Phi(d1)),
                   Mul(self._strike_price, Phi(d2)))))
    ELSE
        Ok(Mul(discount(self, time_to_maturity),
               Sub(Mul(self._strike_price, Phi(d2)),
                   Mul(futures_price, Phi(d1)))))

\* lines 120-131: the branch of get_price on the option type
price_formula(self, futures_price, time_to_maturity, d1, d2) ==
    IF self._option_type = "c" THEN
        Ok(Mul(discount(self, time_to_maturity),
               Sub(Mul(futures_price, Phi(d1)),
                   Mul(self._strike_price, Phi(d2)))))
    ELSE IF self._option_type = "p" THEN
        Ok(Mul(discount(self, time_to_maturity),
               Sub(Mul(self._strike_price, Phi(Neg(d2))),
                   Mul(futures_price, Phi(Neg(d1))))))
    ELSE Raise("InvalidOptionType")

\* a put delta without the - 1
delta_formula_put_unshifted(self, time_to_maturity, d1) ==
    Ok(Mul(discount(self, time_to_maturity), Phi(d1)))

\* a put delta that is the call delta with the sign turned
delta_formula_put_negated(self, time_to_maturity, d1) ==
    IF self._option_type = "c" THEN
        Ok(Mul(discount(self, time_to_maturity), Phi(d1)))
    ELSE
        Ok(Neg(Mul(discount(self, time_to_maturity), Phi(d1))))

\* lines 152-159: the branch of get_delta on the option type
delta_formula(self, time_to_maturity, d1) ==
    IF self._option_type = "c" THEN
        Ok(Mul(discount(self, time_to_maturity), Phi(d1)))
    ELSE IF self._option_type = "p" THEN
        Ok(Mul(discount(self, time_to_maturity), Sub(Phi(d1), One)))
    ELSE Raise("InvalidOptionType")

get_price(self, futures_price, current_time) ==
    LET time_to_maturity == _calc_maturity(self, current_time)
        d1 == _calc_d1(self, futures_price, time_to_maturity)
    IN  IF d1.tag # "ok" THEN d1
        ELSE
            LET d2 == calc_d2(self, d1.val, time_to_maturity)
            IN  IF d2.tag # "ok" THEN d2
                ELSE price_formula(self, futures_price, time_to_maturity,
                                   d1.val, d2.val)

get_delta(self, futures_price, current_time) ==
    LET time_to_maturity == _calc_maturity(self, current_time)
        d1 == _calc_d1(self, futures_price, time_to_maturity)
    IN  IF d1.tag # "ok" THEN d1
        ELSE delta_formula(self, time_to_maturity, d1.val)

(***************************************************************************)
(* The values the model draws its inputs from.                             *)
(***************************************************************************)
Strikes == {FromInt(100), FromInt(120), Zero, FromInt(-100)}
Vols == {Half, [m |-> 20000000, e |-> -8], Zero, Neg(Half)}
Rates == {[m |-> 10000000, e |-> -9], [m |-> -20000000, e |-> -9]}
OptionTypes == {"c", "p", "x"}
Expiry == 400 * TicksPerDay + 2
Expiries == {Expiry}
FuturesPrices == {FromInt(100), FromInt(80)}
Times == {Expiry - 365 * TicksPerDay, Expiry - 180 * TicksPerDay,
          Expiry - 30 * TicksPerDay - 1, Expiry - TicksPerDay,
          Expiry - TicksPerDay + 1, Expiry - 1, Expiry, Expiry + 1,
          Expiry + TicksPerDay + 1}
NumThreads == 2
MaxRejected == 2
MaxDays == 366
Threads == 1 .. NumThreads

Idle == [op |-> "none"]

(***************************************************************************)
(* Spec: one caller that constructs an option and then calls get_price     *)
(* and get_delta on it, one call at a time.                                *)
(***************************************************************************)
Init ==
    /\ opt = NoObject
    /\ ctor = Idle
    /\ rejected = 0
    /\ caller = Idle
    /\ pc = [t \in Threads |-> "idle"]
    /\ frame = [t \in Threads |-> Idle]

\* opt = EuropeanOptionOnFuture(...): the name is bound only if __init__
\* returns; rejected counts the constructions that raised
Construct(strike_price, expiry_date, vol, discount_rate, option_type) ==
    /\ opt = NoObject
    /\ LET out == __init__(strike_price, expiry_date, vol, discount_rate,
                           option_type)
       IN  /\ out.tag # "ok" => rejected < MaxRejected
           /\ ctor' = [op |-> "__init__", option_type |-> option_type,
                       strike_price |-> strike_price, vol |-> vol,
                       expiry_date |-> expiry_date,
                       discount_rate |-> discount_rate, tag |-> out.tag]
           /\ opt' = IF out.tag = "ok" THEN out.val ELSE opt
           /\ rejected' = IF out.tag = "ok" THEN rejected ELSE rejected + 1
    /\ UNCHANGED <<caller, pc, frame>>

\* price = opt.get_price(futures_price, current_time); the record keeps the
\* arguments, the time_to_maturity the call computed and its outcome
GetPrice(futures_price, current_time) ==
    /\ opt # NoObject
    /\ caller = Idle
    /\ caller' = [op |-> "get_price", futures_price |-> futures_price,
                  current_time |-> current_time,
                  time_to_maturity |-> _calc_maturity(opt, current_time),
                  out |-> get_price(opt, futures_price, current_time)]
    /\ UNCHANGED <<opt, ctor, rejected, pc, frame>>

\* delta = opt.get_delta(futures_price, current_time)
GetDelta(futures_price, current_time) ==
    /\ opt # NoObject
    /\ caller = Idle
    /\ caller' = [op |-> "get_delta", futures_price |-> futures_price,
                  current_time |-> current_time,
                  time_to_maturity |-> _calc_maturity(opt, current_time),
                  out |-> get_delta(opt, futures_price, current_time)]
    /\ UNCHANGED <<opt, ctor, rejected, pc, frame>>

\* the caller has looked at the outcome and goes on
Continue ==
    /\ caller # Idle
    /\ caller' = Idle
    /\ UNCHANGED <<opt, ctor, rejected, pc, frame>>

Next ==
    \/ \E k \in Strikes, x \in Expiries, v \in Vols, r \in Rates, o \in OptionTypes :
           Construct(k, x, v, r, o)
    \/ \E f \in FuturesPrices, t \in Times : GetPrice(f, t)
    \/ \E f \in FuturesPrices, t \in Times : GetDelta(f, t)
    \/ Continue

Spec == Init /\ [][Next]_vars

(***************************************************************************)
(* SpecThreads: several threads call get_price and get_delta on one        *)
(* constructed option at the same time.  A call runs one statement at a    *)
(* time; frame[t] holds the arguments and the local variables of the call  *)
(* thread t is in, pc[t] the statement it is about to execute.             *)
(***************************************************************************)
NoValue == [unset |-> TRUE]

SharedOptions ==
    {__init__(k, Expiry, Half, [m |-> 10000000, e |-> -9], o).val :
        k \in {FromInt(100), FromInt(120)}, o \in {"c", "p"}}
ThreadPrices == {FromInt(100)}
ThreadTimes == {Expiry - 30 * TicksPerDay - 1, Expiry - 1}

\* name = val, were name an attribute of the option, which every call in
\* progress reads
assign_shared(fr, t, name, val) ==
    [u \in DOMAIN fr |->
        IF u = t \/ (fr[u].op # "none" /\ name # "out")
        THEN [fr[u] EXCEPT ![name] = val] ELSE fr[u]]

\* name = val, an assignment to a local variable of the call thread t is in
assign_local(fr, t, name, val) == [fr EXCEPT ![t][name] = val]

InitThreads ==
    /\ opt \in SharedOptions
    /\ ctor = Idle
    /\ rejected = 0
    /\ caller = Idle
    /\ pc = [t \in Threads |-> "idle"]
    /\ frame = [t \in Threads |-> Idle]

\* thread t enters get_price or get_delta
Call(t, op, futures_price, current_time) ==
    /\ pc[t] = "idle"
    /\ pc' = [pc EXCEPT ![t] = "maturity"]
    /\ frame' = [frame EXCEPT ![t] =
                    [op |-> op, futures_price |-> futures_price,
                     current_time |-> current_time,
                     time_to_maturity |-> NoValue, d1 |-> NoValue,
                     d2 |-> NoValue, out |-> NoValue]]
    /\ UNCHANGED <<opt, ctor, rejected, caller>>

\* lines 115 and 148: time_to_maturity = self._calc_maturity(current_time)
StepMaturity(t) ==
    /\ pc[t] = "maturity"
    /\ frame' = assign_local(frame, t, "time_to_maturity",
                             _calc_maturity(opt, frame[t].current_time))
    /\ pc' = [pc EXCEPT ![t] = "d1"]
    /\ UNCHANGED <<opt, ctor, rejected, caller>>

\* lines 116 and 149: d1 = self._calc_d1(futures_price, time_to_maturity)
StepD1(t) ==
    /\ pc[t] = "d1"
    /\ LET d1 == _calc_d1(opt, frame[t].futures_price, frame[t].time_to_maturity)
       IN  IF d1.tag # "ok"
           THEN /\ frame' = assign_local(frame, t, "out", d1)
                /\ pc' = [pc EXCEPT ![t] = "done"]
           ELSE /\ frame' = assign_local(frame, t, "d1", d1.val)
                /\ pc' = [pc EXCEPT ![t] =
                             IF frame[t].op = "get_price" THEN "d2" ELSE "formula"]
    /\ UNCHANGED <<opt, ctor, rejected, caller>>

\* line 117: d2 = d1 - self._vol * sqrt(time_to_maturity)
StepD2(t) ==
    /\ pc[t] = "d2"
    /\ LET d2 == calc_d2(opt, frame[t].d1, frame[t].time_to_maturity)
       IN  IF d2.tag # "ok"
           THEN /\ frame' = assign_local(frame, t, "out", d2)
                /\ pc' = [pc EXCEPT ![t] = "done"]
           ELSE /\ frame' = assign_local(frame, t, "d2", d2.val)
                /\ pc' = [pc EXCEPT ![t] = "formula"]
    /\ UNCHANGED <<opt, ctor, rejected, caller>>

\* lines 120-131 and 152-159: the formula of the option type, and return
StepFormula(t) ==
    /\ pc[t] = "formula"
    /\ frame' = assign_local(frame, t, "out",
                    IF frame[t].op = "get_price"
                    THEN price_formula(opt, frame[t].futures_price,
                                       frame[t].time_to_maturity,
                                       frame[t].d1, frame[t].d2)
                    ELSE delta_formula(opt, frame[t].time_to_maturity,
                                       frame[t].d1))
    /\ pc' = [pc EXCEPT ![t] = "done"]
    /\ UNCHANGED <<opt, ctor, rejected, caller>>

\* the call of thread t has returned or raised; its frame is gone
Return(t) ==
    /\ pc[t] = "done"
    /\ pc' = [pc EXCEPT ![t] = "idle"]
    /\ frame' = [frame EXCEPT ![t] = Idle]
    /\ UNCHANGED <<opt, ctor, rejected, caller>>

NextThreads ==
    \/ \E t \in Threads, op \in {"get_price", "get_delta"},
          f \in ThreadPrices, c \in ThreadTimes : Call(t, op, f, c)
    \/ \E t \in Threads : StepMaturity(t)
    \/ \E t \in Threads : StepD1(t)
    \/ \E t \in Threads : StepD2(t)
    \/ \E t \in Threads : StepFormula(t)
    \/ \E t \in Threads : Return(t)

SpecThreads == InitThreads /\ [][NextThreads]_vars

(***************************************************************************)
(* Properties.                                                             *)
(***************************************************************************)
\* the calls the properties speak of
Called(op) == caller.op = op

Returned(op) == caller.op = op /\ caller.out.tag = "ok"

IsError(out) == out.tag \in {"ZeroDivisionError", "MathDomainError"}

\* expiry_date - current_time of the call in progress, in ticks
Remaining == opt._expiry_date - caller.current_time

\* |a - b| <= tol
Within(a, b, tol) == Le(AbsF(Sub(a, b)), tol)

\* the option of the other type with the same contract terms
Twin(self) ==
    [self EXCEPT !._option_type = IF self._option_type = "c" THEN "p" ELSE "c"]

\* the unit roundoff of the arithmetic: half a unit in the eighth digit
UnitRoundoff == [m |-> 50000000, e |-> -15]

\* C1: whenever get_delta returns a value (which takes strike_price > 0,
\* futures_price > 0, volatility # 0 and time_to_maturity > 0), the delta of
\* a call lies in [0, exp(-discount_rate * T)] and the delta of a put lies
\* in [-exp(-discount_rate * T), 0].
DeltaSignContract ==
    Returned("get_delta") =>
        LET df == Exp(Mul(Neg(opt._discount_rate), caller.time_to_maturity))
            delta == caller.out.val
        IN  IF opt._option_type = "c"
            THEN Le(Zero, delta) /\ Le(delta, df)
            ELSE Le(Neg(df), delta) /\ Le(delta, Zero)

PutDeltaReturned ==
    /\ Returned("get_delta")
    /\ opt._option_type = "p"
    /\ opt._strike_price.m > 0
    /\ opt._vol.m > 0
    /\ caller.time_to_maturity.m > 0
    /\ caller.out.val.m < 0

\* C2: a construction with an option_type other than 'c' and 'p' raises the
\* invalid-option-type error and binds no object; a construction with 'c'
\* or 'p' returns the object holding the five arguments, whatever the
\* strike_price, volatility and discount_rate are.
ConstructionValidation ==
    ctor # Idle =>
        IF ctor.option_type \in {"c", "p"}
        THEN /\ ctor.tag = "ok"
             /\ opt = [_strike_price |-> ctor.strike_price,
                       _expiry_date |-> ctor.expiry_date,
                       _vol |-> ctor.vol,
                       _discount_rate |-> ctor.discount_rate,
                       _option_type |-> ctor.option_type]
        ELSE /\ ctor.tag = "InvalidOptionType"
             /\ opt = NoObject
             /\ rejected > 0

UncheckedTermsAccepted ==
    /\ rejected > 0
    /\ ctor # Idle
    /\ ctor.tag = "ok"
    /\ ctor.strike_price.m < 0
    /\ ctor.vol.m < 0
    /\ opt # NoObject

\* C3: the call of strike 100, volatility 0.5, discount rate 0.01, valued at
\* futures price 100 exactly 365 days before expiry, has time_to_maturity
\* 1.0, a price within 0.0001 of 19.544836 and a delta within 0.0001 of
\* 0.59273.
ScenarioOption ==
    [_strike_price |-> FromInt(100), _expiry_date |-> Expiry, _vol |-> Half,
     _discount_rate |-> [m |-> 10000000, e |-> -9], _option_type |-> "c"]

ScenarioCall(op) ==
    /\ opt = ScenarioOption
    /\ Called(op)
    /\ caller.futures_price = FromInt(100)
    /\ caller.current_time = Expiry - 365 * TicksPerDay

ScenarioTolerance == [m |-> 10000000, e |-> -11]

EndToEndScenario ==
    /\ ScenarioCall("get_price") =>
           /\ caller.time_to_maturity = One
           /\ caller.out.tag = "ok"
           /\ Within(caller.out.val, [m |-> 19544836, e |-> -6], ScenarioTolerance)
    /\ ScenarioCall("get_delta") =>
           /\ caller.time_to_maturity = One
           /\ caller.out.tag = "ok"
           /\ Within(caller.out.val, [m |-> 59273000, e |-> -8], ScenarioTolerance)

ScenarioPriced == ScenarioCall("get_price") /\ caller.out.tag = "ok"

\* C5: a call with time_to_maturity <= 0 or volatility = 0 ends in the
\* error the computation of d1 raises (division by zero or math domain
\* error), never in a value, and get_price and get_delta end alike.
DegenerateInputsRaise ==
    (caller # Idle /\ (caller.time_to_maturity.m <= 0 \/ opt._vol.m = 0)) =>
        /\ IsError(caller.out)
        /\ get_price(opt, caller.futures_price, caller.current_time) = caller.out
        /\ get_delta(opt, caller.futures_price, caller.current_time) = caller.out

ZeroVolatilityRaised ==
    /\ Called("get_price")
    /\ opt._vol.m = 0
    /\ opt._strike_price.m > 0
    /\ caller.time_to_maturity.m > 0
    /\ caller.out.tag = "ZeroDivisionError"

\* C8: a constructed option has option_type 'c' or 'p', no call of
\* get_price or get_delta ends in the invalid-option-type error, and that
\* error is raised by the constructor alone.
OptionTypeInvariant ==
    /\ opt # NoObject => opt._option_type \in {"c", "p"}
    /\ caller # Idle => caller.out.tag # "InvalidOptionType"

ValuedAfterRejection ==
    /\ rejected > 0
    /\ opt # NoObject
    /\ Returned("get_price")

\* C4 (as stated): time_to_maturity is expiry_date - current_time cut to
\* whole days by discarding the part of a day (rounding towards zero), over
\* 365, and is zero or negative at and after expiry.
MaturityTruncatesTowardsZero ==
    caller # Idle =>
        LET whole == IF Remaining >= 0 THEN Remaining \div TicksPerDay
                     ELSE -((-Remaining) \div TicksPerDay)
        IN  /\ caller.time_to_maturity = Div(FromInt(whole), FromInt(365))
            /\ Remaining <= 0 => caller.time_to_maturity.m <= 0

\* C4 (amended): time_to_maturity is d / 365 for the whole number of days d
\* with d days <= expiry_date - current_time < d + 1 days (the difference
\* rounded towards minus infinity: half a day after expiry counts as -1
\* day), with no leap-year adjustment; it is zero or negative at and after
\* expiry.
MaturityRoundsDown ==
    caller # Idle =>
        /\ \E d \in -MaxDays .. MaxDays :
               /\ d * TicksPerDay <= Remaining
               /\ Remaining < (d + 1) * TicksPerDay
               /\ caller.time_to_maturity = Div(FromInt(d), FromInt(365))
        /\ Remaining <= 0 => caller.time_to_maturity.m <= 0

ValuedPartOfADayAfterExpiry ==
    /\ caller # Idle
    /\ Remaining < 0
    /\ -Remaining < TicksPerDay
    /\ caller.time_to_maturity = Div(FromInt(-1), FromInt(365))

\* C9 (as stated): time_to_maturity > 0 exactly if expiry is at least one
\* full day after the valuation time; less than a day before expiry it is 0
\* and the call ends in the division by zero.
LastDayDividesByZero ==
    caller # Idle =>
        /\ caller.time_to_maturity.m > 0 <=> Remaining >= TicksPerDay
        /\ (0 < Remaining /\ Remaining < TicksPerDay) =>
               /\ caller.time_to_maturity = Zero
               /\ caller.out.tag = "ZeroDivisionError"

\* C9 (amended): time_to_maturity > 0 exactly if expiry is at least one
\* full day after the valuation time; less than a day before expiry it is 0
\* and the call returns no value: it ends in the division by zero if
\* strike_price > 0 and futures_price > 0 (with a negative strike the
\* logarithm raises the math domain error first).
LastDayRaises ==
    caller # Idle =>
        /\ caller.time_to_maturity.m > 0 <=> Remaining >= TicksPerDay
        /\ (0 < Remaining /\ Remaining < TicksPerDay) =>
               /\ caller.time_to_maturity = Zero
               /\ IsError(caller.out)
               /\ (opt._strike_price.m > 0 /\ caller.futures_price.m > 0) =>
                      caller.out.tag = "ZeroDivisionError"

LastDayDeltaRaised ==
    /\ Called("get_delta")
    /\ 0 < Remaining
    /\ Remaining < TicksPerDay
    /\ opt._strike_price.m > 0
    /\ opt._vol.m > 0
    /\ caller.out.tag = "ZeroDivisionError"

\* the delta of the option and of its twin at the arguments of the call
CallDelta ==
    IF opt._option_type = "c" THEN caller.out
    ELSE get_delta(Twin(opt), caller.futures_price, caller.current_time)

PutDelta ==
    IF opt._option_type = "p" THEN caller.out
    ELSE get_delta(Twin(opt), caller.futures_price, caller.current_time)

DiscountFactor == Exp(Mul(Neg(opt._discount_rate), caller.time_to_maturity))

\* C6 (as stated): where a call and a put of the same terms both return a
\* delta, call_delta - put_delta equals exp(-discount_rate * T).
DeltaParityExact ==
    (Returned("get_delta") /\ CallDelta.tag = "ok" /\ PutDelta.tag = "ok") =>
        Sub(CallDelta.val, PutDelta.val) = DiscountFactor

\* C6 (amended): where a call and a put of the same terms both return a
\* delta, call_delta - put_delta equals exp(-discount_rate * T) up to the
\* rounding of the floating-point operations: they differ by at most 4
\* unit roundoffs of exp(-discount_rate * T).
DeltaParityRounded ==
    (Returned("get_delta") /\ CallDelta.tag = "ok" /\ PutDelta.tag = "ok") =>
        Within(Sub(CallDelta.val, PutDelta.val), DiscountFactor,
               Mul(FromInt(4), Mul(UnitRoundoff, DiscountFactor)))

DeltaPairReturned ==
    /\ Returned("get_delta")
    /\ PutDelta.tag = "ok"
    /\ CallDelta.val.m > 0
    /\ PutDelta.val.m < 0

\* the price of the option and of its twin at the arguments of the call
CallPrice ==
    IF opt._option_type = "c" THEN caller.out
    ELSE get_price(Twin(opt), caller.futures_price, caller.current_time)

PutPrice ==
    IF opt._option_type = "p" THEN caller.out
    ELSE get_price(Twin(opt), caller.futures_price, caller.current_time)

Forward ==
    Mul(DiscountFactor, Sub(caller.futures_price, opt._strike_price))

\* C10 (as stated): where a call and a put of the same terms both return a
\* price, call_price - put_price equals
\* exp(-discount_rate * T) * (futures_price - strike_price).
PriceParityExact ==
    (Returned("get_price") /\ CallPrice.tag = "ok" /\ PutPrice.tag = "ok") =>
        Sub(CallPrice.val, PutPrice.val) = Forward

\* C10 (amended): where a call and a put of the same terms both return a
\* price, call_price - put_price equals
\* exp(-discount_rate * T) * (futures_price - strike_price) up to the
\* rounding of the floating-point operations: they differ by at most 8
\* unit roundoffs of exp(-discount_rate * T) * (|futures_price| +
\* |strike_price|).
PriceParityRounded ==
    (Returned("get_price") /\ CallPrice.tag = "ok" /\ PutPrice.tag = "ok") =>
        Within(Sub(CallPrice.val, PutPrice.val), Forward,
               Mul(FromInt(8),
                   Mul(UnitRoundoff,
                       Mul(DiscountFactor,
                           Add(AbsF(caller.futures_price),
                               AbsF(opt._strike_price))))))

PricePairReturned ==
    /\ Returned("get_price")
    /\ PutPrice.tag = "ok"
    /\ opt._strike_price # caller.futures_price
    /\ CallPrice.val.m > 0
    /\ PutPrice.val.m > 0

\* the outcome of the call of thread t, were it executed alone
Alone(t) ==
    IF frame[t].op = "get_price"
    THEN get_price(opt, frame[t].futures_price, frame[t].current_time)
    ELSE get_delta(opt, frame[t].futures_price, frame[t].current_time)

\* C7: in every interleaving of calls of get_price and get_delta on one
\* option, no step changes the five fields of the option, the local
\* variables of every call are those its own arguments give, and every call
\* that has ended, in a value or in an error, ended as it would have alone.
CallsArePure ==
    /\ [][opt' = opt]_vars
    /\ [](\A t \in Threads :
            /\ (pc[t] \in {"d1", "d2", "formula"}) =>
                   frame[t].time_to_maturity =
                       _calc_maturity(opt, frame[t].current_time)
            /\ (pc[t] \in {"d2", "formula"}) =>
                   Ok(frame[t].d1) =
                       _calc_d1(opt, frame[t].futures_price,
                                frame[t].time_to_maturity)
            /\ pc[t] = "done" => frame[t].out = Alone(t))

CallsInterleaved ==
    \E t, u \in Threads :
        /\ t # u
        /\ pc[t] = "done"
        /\ frame[t].out.tag = "ok"
        /\ pc[u] \in {"d1", "d2", "formula"}
        /\ frame[u].current_time # frame[t].current_time

====
